---- MODULE Spec2Model ----
(***************************************************************************)
(* A model of solnet: the SRS frame decoder and spectrogram container      *)
(* (solnet/data.py) and the combiner and gain rectifier (solnet/util.py).  *)
(*                                                                         *)
(* Four state machines share this module, one per part of the code:       *)
(*   Spec         SolarRadioSpectrograph.from_file, read by read           *)
(*   SpecContainer  SolarRadioSpectrograph.append / extend                 *)
(*   SpecCombine  combine_srs, one 10 s step of its while loop per action  *)
(*   SpecRectify  rectify_combined, one for-loop iteration per action      *)
(* Each specification leaves the other machines' variables untouched.      *)
(*                                                                         *)
(* Python indices are 0-based and TLA+ sequences 1-based: element i of a   *)
(* Python list is element i+1 here.  Every index below is 1-based unless a *)
(* comment says otherwise.                                                 *)
(***************************************************************************)
EXTENDS Integers, Sequences, FiniteSets, TLC

(***************************************************************************)
(* State.                                                                  *)
(***************************************************************************)
\* SolarRadioSpectrograph.from_file (data.py:135-214).
VARIABLES
    fh,           \* the byte stream: [a, b, len], see StreamByte
    pos,          \* bytes read so far
    first_frame,  \* no header parsed yet
    header,       \* the fields of the header read last
    dt,           \* the timestamp of the header read last
    data0,        \* band 1 of the record being read
    d_srs,        \* the object being filled: [site_id, site, freq_range, time_range, data]
    d_pc,         \* "header", "part1", "part2", "done"
    d_out         \* "running", "ok", or the exception raised

dvars == <<fh, pos, first_frame, header, dt, data0, d_srs, d_pc, d_out>>

\* SolarRadioSpectrograph.append and extend (data.py:105-124).
VARIABLES
    k_obj,   \* the object: [is_array, freq_size, time_range, data]
    k_prev,  \* the object before the last call
    k_call,  \* the last call: [op, timestamps, specs]
    k_out    \* its outcome: "none", "ok", or the exception raised

kvars == <<k_obj, k_prev, k_call, k_out>>

\* combine_srs (util.py:12-96).
VARIABLES
    args,                   \* the inputs: [site_id, site, freq_range, time_range, data]
    data_sources,           \* pooled tag of every sample
    time_ranges,            \* pooled timestamp of every sample
    weights,                \* pooled weight of every sample, in units of 1/86400
    pool,                   \* pooled rows (the local "data")
    t0,                     \* the current 10 s step
    t1,                     \* the largest timestamp
    combined_data_sources,  \* tags emitted so far
    combined_time_range,    \* timestamps emitted so far
    combined_data,          \* rows emitted so far
    combined,               \* the returned object
    c_pc,                   \* "start", "loop", "done"
    c_out                   \* "running", "ok", or the exception raised

cvars == <<args, data_sources, time_ranges, weights, pool, t0, t1,
           combined_data_sources, combined_time_range, combined_data,
           combined, c_pc, c_out>>

\* rectify_combined (util.py:99-170).
VARIABLES
    srs,          \* the argument: [has_source, data_source, data], data a list of array ids
    arrays,       \* the numpy row arrays, by identity: id -> row
    arrays0,      \* the rows as they were when rectify_combined was called
    sources,      \* np.unique of the finite tags
    ref,          \* the reference tag
    attemps,      \* passes of the while loop started
    processed,    \* list of processed tags
    adjustments,  \* dict tag -> offset
    s_idx,        \* position of the for loop in sources
    r_pc,         \* "start", "while", "for", "done"
    r_out,        \* "running", "ok", or the exception raised
    new_srs       \* the returned object

rvars == <<srs, arrays, arrays0, sources, ref, attemps, processed, adjustments,
           s_idx, r_pc, r_out, new_srs>>

vars == <<dvars, kvars, cvars, rvars>>

(***************************************************************************)
(* Bounds of the model.                                                    *)
(***************************************************************************)
\* Columns of a spectrum in the combiner and rectifier machines (802 in the
\* files the decoder reads; the decoder machine keeps the real 2 x 401).
NChan == 12
\* Rows of a combined spectrogram handed to rectify_combined.
MaxRows == 4
\* Inputs of combine_srs whose tags can appear in a combined spectrogram.
MaxSites == 3

(***************************************************************************)
(* Values shared by the machines.                                          *)
(***************************************************************************)
\* np.nan as a source tag (util.py:75).  Site tags are 0, 1, 2, ...
NaN == -1
\* np.nan as a power value (util.py:77).  Powers in the model stay far above.
NaNPow == -1000000

IsNaN(x) == x = NaN

\* IEEE addition on powers: NaN absorbs.
PowAdd(x, y) == IF x = NaNPow \/ y = NaNPow THEN NaNPow ELSE x + y
PowSub(x, y) == IF x = NaNPow \/ y = NaNPow THEN NaNPow ELSE x - y

Min(a, b) == IF a <= b THEN a ELSE b
Abs(x) == IF x < 0 THEN 0 - x ELSE x

Range(f) == { f[i] : i \in DOMAIN f }

\* The row np.zeros(n)*np.nan.
NaNRow == [c \in 1..NChan |-> NaNPow]

RECURSIVE SortedSeq(_)
\* The elements of a finite set of integers in ascending order (np.unique).
SortedSeq(S) ==
    IF S = {} THEN <<>>
    ELSE LET m == CHOOSE x \in S : \A y \in S : x <= y
         IN  <<m>> \o SortedSeq(S \ {m})

\* All sequences over S of length lo..hi.
SeqsOf(S, lo, hi) == UNION { [1..n -> S] : n \in lo..hi }

(***************************************************************************)
(* rectify_combined (util.py:99-170).                                      *)
(***************************************************************************)

\* The reference sub-band, the slice [200:401] of an 802-column row: 200 is
\* 802 \div 4 and 401 is 802 \div 2, and the model keeps those proportions
\* for its NChan columns.  RefLo is the 0-based start, RefHi the 0-based
\* exclusive stop, so the slice is columns RefLo+1 .. RefHi here.
RefLo == NChan \div 4
RefHi == NChan \div 2
RefBand == (RefLo + 1)..RefHi

\* k-th smallest (k from 1) of the values row[c], c in cols, with multiplicity.
KthSmallest(row, cols, k) ==
    CHOOSE v \in { row[c] : c \in cols } :
        /\ Cardinality({ c \in cols : row[c] < v }) < k
        /\ Cardinality({ c \in cols : row[c] <= v }) >= k

\* np.median over the columns cols of a row: NaN if any value is NaN, the
\* middle value of an odd count, the mean of the two middle values of an
\* even count (exact here whenever their sum is even).
Median(row, cols) ==
    LET n == Cardinality(cols)
    IN  IF \E c \in cols : row[c] = NaNPow THEN NaNPow
        ELSE IF n % 2 = 1 THEN KthSmallest(row, cols, (n + 1) \div 2)
        ELSE (KthSmallest(row, cols, n \div 2)
              + KthSmallest(row, cols, n \div 2 + 1)) \div 2

\* util.py:118: the finite tags, in order.
CleanSource(ds) == SelectSeq(ds, LAMBDA x : ~IsNaN(x))

\* util.py:119: np.unique(clean_source).
Sources(ds) == SortedSeq(Range(CleanSource(ds)))

\* util.py:120-121: changes = np.diff(data_source); changes[i] != 0 is true
\* where the difference is NaN.
ChangedAt(ds, i) ==
    IsNaN(ds[i]) \/ IsNaN(ds[i + 1]) \/ ds[i + 1] - ds[i] # 0

ChangeIdx(ds) == { i \in 1..(Len(ds) - 1) : ChangedAt(ds, i) }

FirstChange(ds) == CHOOSE i \in ChangeIdx(ds) : \A j \in ChangeIdx(ds) : i <= j

\* util.py:121: ref = data_source[np.where(changes != 0)[0][0]].
PickRefAfter(ds) == ds[FirstChange(ds) + 1]
PickRef(ds) == ds[FirstChange(ds)]

\* util.py:138: np.where(data_source == s)[0], ascending (NaN equals nothing).
SourceSet(ds, s) == { i \in 1..Len(ds) : ~IsNaN(ds[i]) /\ ds[i] = s }
SetMin(S) == CHOOSE x \in S : \A y \in S : x <= y
SetMax(S) == CHOOSE x \in S : \A y \in S : x >= y

\* "x in processed" for a Python list; NaN compares unequal to every tag.
InList(x, lst) == ~IsNaN(x) /\ \E i \in 1..Len(lst) : lst[i] = x

\* util.py:148-149: _data[i] += off for i in source_set.  += on a numpy
\* array works in place: the array object keeps its identity.
AddInPlace(arrs, ids, off) ==
    [a \in DOMAIN arrs |->
        IF a \in ids THEN [c \in DOMAIN arrs[a] |-> PowAdd(arrs[a][c], off)]
        ELSE arrs[a]]

NoAdjust == [x \in {} |-> 0]
NoSrs == [data |-> <<>>, data_source |-> <<>>, data_adjustments |-> NoAdjust]

\* A power of the rectifier's test inputs: row i, tagged s, column c.
RowPow(i, s, c) ==
    (7 * s) + (((i + 1) * c) % 5) + (IF c > RefHi THEN 20 ELSE 0)

\* The rows combine_srs builds for a tag sequence: a NaN row where the tag is
\* the missing-data marker, a finite row elsewhere.
RowsFor(ds) ==
    [i \in 1..Len(ds) |->
        IF IsNaN(ds[i]) THEN NaNRow ELSE [c \in 1..NChan |-> RowPow(i, ds[i], c)]]

Tags == 0..(MaxSites - 1)

\* What combine_srs can return as _data_source: its first row is always
\* filled (the row at the minimum timestamp), the others are any mix.
CombinedTagSeqs ==
    { ds \in SeqsOf(Tags \cup {NaN}, 1, MaxRows) : ~IsNaN(ds[1]) }

RectifyCalled ==
    /\ \E ds \in CombinedTagSeqs, hs \in BOOLEAN :
        /\ hs = FALSE => ds = <<0>>
        /\ srs = [has_source |-> hs, data_source |-> ds,
                  data |-> [i \in 1..Len(ds) |-> i]]
        /\ arrays = RowsFor(ds)
        /\ arrays0 = RowsFor(ds)
    /\ sources = <<>>
    /\ ref = NaN
    /\ attemps = 0
    /\ processed = <<>>
    /\ adjustments = NoAdjust
    /\ s_idx = 0
    /\ r_pc = "start"
    /\ r_out = "running"
    /\ new_srs = NoSrs

\* util.py:110-126: the checks and the choice of the reference.
RectStart ==
    /\ r_pc = "start"
    /\ IF ~srs.has_source
       THEN /\ r_out' = "NotCombined"
            /\ r_pc' = "done"
            /\ UNCHANGED <<sources, ref, processed, adjustments>>
       ELSE IF ChangeIdx(srs.data_source) = {}
       THEN \* np.where(...)[0][0] on an empty array
            /\ r_out' = "IndexError"
            /\ r_pc' = "done"
            /\ sources' = Sources(srs.data_source)
            /\ UNCHANGED <<ref, processed, adjustments>>
       ELSE /\ sources' = Sources(srs.data_source)
            /\ ref' = PickRef(srs.data_source)
            /\ processed' = <<PickRef(srs.data_source)>>
            /\ adjustments' = [x \in {PickRef(srs.data_source)} |-> 0]
            /\ r_pc' = "while"
            /\ UNCHANGED r_out
    /\ UNCHANGED <<srs, arrays, arrays0, attemps, s_idx, new_srs>>
    /\ UNCHANGED <<dvars, kvars, cvars>>

\* util.py:127-130: the number of passes the loop may start.
StallLimitLoose(n) == 5 * n + 2
StallLimit(n) == 5 * n

\* util.py:127-130 and 166-170: the loop test, the stall guard, the return.
RectWhile ==
    /\ r_pc = "while"
    /\ IF Len(processed) < Len(sources)
       THEN /\ attemps' = attemps + 1
            /\ IF attemps + 1 > StallLimit(Len(sources))
               THEN /\ r_out' = "Stalled"
                    /\ r_pc' = "done"
                    /\ UNCHANGED s_idx
               ELSE /\ s_idx' = 1
                    /\ r_pc' = "for"
                    /\ UNCHANGED r_out
            /\ UNCHANGED new_srs
       ELSE \* deepcopy(srs), then new_srs._data = _data: the copy's rows are
            \* dropped for the list the input holds.
            /\ new_srs' = [data |-> srs.data, data_source |-> srs.data_source,
                           data_adjustments |-> adjustments]
            /\ r_out' = "ok"
            /\ r_pc' = "done"
            /\ UNCHANGED <<attemps, s_idx>>
    /\ UNCHANGED <<srs, arrays, arrays0, sources, ref, processed, adjustments>>
    /\ UNCHANGED <<dvars, kvars, cvars>>

\* The offset of site s matched to the row before its first row (util.py:146-147).
OffsetBeforeAll(arrs, dat, first) ==
    PowSub(Median(arrs[dat[first - 1]], 1..NChan), Median(arrs[dat[first]], 1..NChan))
OffsetBefore(arrs, dat, first) ==
    PowSub(Median(arrs[dat[first - 1]], RefBand), Median(arrs[dat[first]], RefBand))

\* util.py:132-164: one iteration of "for s in sources".
RectFor ==
    /\ r_pc = "for"
    /\ IF s_idx > Len(sources)
       THEN /\ r_pc' = "while"
            /\ UNCHANGED <<arrays, processed, adjustments, s_idx, r_out>>
       ELSE LET s == sources[s_idx]
                ds == srs.data_source
                set == SourceSet(ds, s)
                first == SetMin(set)
                off == OffsetBefore(arrays, srs.data, first)
            IN  IF InList(s, processed)
                THEN /\ s_idx' = s_idx + 1
                     /\ UNCHANGED <<arrays, processed, adjustments, r_pc, r_out>>
                ELSE IF first > 1
                THEN IF InList(ds[first - 1], processed)
                     THEN /\ arrays' = AddInPlace(arrays, { srs.data[i] : i \in set }, off)
                          /\ processed' = Append(processed, s)
                          /\ adjustments' =
                                [x \in DOMAIN adjustments \cup {s} |->
                                    IF x = s THEN off ELSE adjustments[x]]
                          /\ s_idx' = s_idx + 1
                          /\ UNCHANGED <<r_pc, r_out>>
                     ELSE /\ s_idx' = s_idx + 1
                          /\ UNCHANGED <<arrays, processed, adjustments, r_pc, r_out>>
                ELSE \* util.py:152: the elif reads len(data_sources), a name
                     \* rectify_combined never binds.
                     /\ r_out' = "NameError"
                     /\ r_pc' = "done"
                     /\ UNCHANGED <<arrays, processed, adjustments, s_idx>>
    /\ UNCHANGED <<srs, arrays0, sources, ref, attemps, new_srs>>
    /\ UNCHANGED <<dvars, kvars, cvars>>

NextRectify == RectStart \/ RectWhile \/ RectFor

(***************************************************************************)
(* combine_srs (util.py:12-96).                                            *)
(***************************************************************************)

\* Samples over all inputs of one combine_srs call.
MaxPool == 3

\* Timestamps (s) of the inputs' samples: on the 10 s grid, inside the 5 s
\* half-window of a step, and exactly 5 s from two steps.
TimeSet == {0, 5, 6, 10, 14, 15, 20}

\* data.py:17-21.
SiteName(id) ==
    CASE id = 1 -> "Palehau"
      [] id = 2 -> "Holloman"
      [] id = 3 -> "Learmonth"
      [] id = 4 -> "San Vito"
      [] id = 5 -> "Sagamore Hill"

\* The frequency axis the inputs share, and four that differ from it: in an
\* intermediate value only, in the first value, in the last value, in length.
Axis(v) ==
    CASE v = "same"  -> [c \in 1..NChan |-> 10 * c]
      [] v = "mid"   -> [c \in 1..NChan |-> IF c = 2 THEN 15 ELSE 10 * c]
      [] v = "first" -> [c \in 1..NChan |-> IF c = 1 THEN 5 ELSE 10 * c]
      [] v = "last"  -> [c \in 1..NChan |-> IF c = NChan THEN 10 * c + 5 ELSE 10 * c]
      [] v = "len"   -> [c \in 1..(NChan - 1) |-> IF c = NChan - 1 THEN 10 * NChan ELSE 10 * c]

AxisKinds == {"same", "mid", "first", "last", "len"}

\* The power in column c of sample j of input i (i from 1).
InPow(i, j, c) == (100 * i) + (10 * j) + c

\* The inputs whose samples are ts, split after the positions in cuts; input
\* d, if any, has the axis of kind v.
MakeArgs(ts, cuts, d, v) ==
    LET n == Len(ts)
        bounds == SortedSeq(cuts \cup {0, n})
        k == Len(bounds) - 1
    IN  [i \in 1..k |->
            LET lo == bounds[i]
                m == bounds[i + 1] - bounds[i]
                ax == IF i = d THEN Axis(v) ELSE Axis("same")
            IN  [site_id |-> ((i - 1) % 5) + 1,
                 site |-> SiteName(((i - 1) % 5) + 1),
                 freq_range |-> ax,
                 time_range |-> [j \in 1..m |-> ts[lo + j]],
                 data |-> [j \in 1..m |-> [c \in 1..Len(ax) |-> InPow(i, j, c)]]]]

NoCombined ==
    [site_id |-> 0, site |-> <<>>, freq_range |-> <<>>, time_range |-> <<>>,
     data |-> <<>>, data_source |-> <<>>]

CombineCalled ==
    /\ \E n \in 1..MaxPool :
        \E ts \in [1..n -> TimeSet], cuts \in SUBSET (1..(n - 1)) :
            \E d \in 0..(Cardinality(cuts) + 1), v \in AxisKinds :
                /\ (d = 0) = (v = "same")
                /\ args = MakeArgs(ts, cuts, d, v)
    /\ data_sources = <<>>
    /\ time_ranges = <<>>
    /\ weights = <<>>
    /\ pool = <<>>
    /\ t0 = 0
    /\ t1 = 0
    /\ combined_data_sources = <<>>
    /\ combined_time_range = <<>>
    /\ combined_data = <<>>
    /\ combined = NoCombined
    /\ c_pc = "start"
    /\ c_out = "running"

\* util.py:27-34: the frequency axes agree in length, first and last value.
AxisMismatchStrict(as) == \E i \in 1..Len(as) : as[i].freq_range # as[1].freq_range
AxisMismatch(as) ==
    \E i \in 1..Len(as) :
        \/ Len(as[i].freq_range) # Len(as[1].freq_range)
        \/ as[i].freq_range[1] # as[1].freq_range[1]
        \/ as[i].freq_range[Len(as[i].freq_range)] # as[1].freq_range[Len(as[1].freq_range)]

RECURSIVE Concat(_)
\* np.concatenate of a list of lists.
Concat(ss) == IF ss = <<>> THEN <<>> ELSE Head(ss) \o Concat(Tail(ss))

\* util.py:45-46: weights[-1][weights[-1].size//2], the middle-indexed timestamp.
MidTime(tr) == tr[(Len(tr) \div 2) + 1]

\* util.py:46: 1 - |t - t_mid| / 86400, times 86400.
Weight(t, tmid) == 86400 - Abs(t - tmid)

\* util.py:43-51: the pooled tags, timestamps, weights and rows.
PoolSources(as) == Concat([i \in 1..Len(as) |-> [j \in 1..Len(as[i].time_range) |-> i - 1]])
PoolTimes(as) == Concat([i \in 1..Len(as) |-> as[i].time_range])
PoolWeights(as) ==
    Concat([i \in 1..Len(as) |->
        [j \in 1..Len(as[i].time_range) |->
            Weight(as[i].time_range[j], MidTime(as[i].time_range))]])
PoolData(as) == Concat([i \in 1..Len(as) |-> as[i].data])

\* util.py:61: np.where(np.abs(time_ranges - t0) < 5)[0].
MatchWide(trs, t) == { i \in 1..Len(trs) : Abs(trs[i] - t) <= 5 }
Match(trs, t) == { i \in 1..Len(trs) : Abs(trs[i] - t) < 5 }

\* util.py:69: np.argmax over the matches: the first of the largest weights.
BestLast(w, match) ==
    CHOOSE i \in match :
        /\ \A j \in match : w[j] <= w[i]
        /\ \A j \in match : (w[j] = w[i]) => i >= j
Best(w, match) ==
    CHOOSE i \in match :
        /\ \A j \in match : w[j] <= w[i]
        /\ \A j \in match : (w[j] = w[i]) => i <= j

\* util.py:22-55: the axis check, the pooling, the time range.
CombStart ==
    /\ c_pc = "start"
    /\ IF AxisMismatch(args)
       THEN /\ c_out' = "IncompatibleAxis"
            /\ c_pc' = "done"
            /\ UNCHANGED <<data_sources, time_ranges, weights, pool, t0, t1>>
       ELSE /\ data_sources' = PoolSources(args)
            /\ time_ranges' = PoolTimes(args)
            /\ weights' = PoolWeights(args)
            /\ pool' = PoolData(args)
            /\ t0' = SetMin(Range(PoolTimes(args)))
            /\ t1' = SetMax(Range(PoolTimes(args)))
            /\ c_pc' = "loop"
            /\ UNCHANGED c_out
    /\ UNCHANGED <<args, combined_data_sources, combined_time_range,
                   combined_data, combined>>
    /\ UNCHANGED <<dvars, kvars, rvars>>

\* util.py:71: the timestamp recorded for a filled row.
EmitTimeGrid(trs, best, t) == t
EmitTime(trs, best, t) == trs[best]

\* util.py:59-78: one pass of the while loop.
CombStep ==
    /\ c_pc = "loop"
    /\ t0 <= t1
    /\ LET match == Match(time_ranges, t0)
       IN  IF match # {}
           THEN LET best == Best(weights, match)
                IN  /\ combined_data_sources' = Append(combined_data_sources, data_sources[best])
                    /\ combined_time_range' =
                          Append(combined_time_range, EmitTime(time_ranges, best, t0))
                    /\ combined_data' = Append(combined_data, pool[best])
           ELSE /\ combined_data_sources' = Append(combined_data_sources, NaN)
                /\ combined_time_range' = Append(combined_time_range, t0)
                /\ combined_data' =
                      Append(combined_data, [c \in 1..Len(pool[1]) |-> NaNPow])
    /\ t0' = t0 + 10
    /\ UNCHANGED <<args, data_sources, time_ranges, weights, pool, t1, combined,
                   c_pc, c_out>>
    /\ UNCHANGED <<dvars, kvars, rvars>>

RECURSIVE Pow10(_)
Pow10(n) == IF n = 0 THEN 1 ELSE 10 * Pow10(n - 1)

RECURSIVE PackedSiteId(_, _)
\* util.py:83-86: the sum of site_id * 10**i over the inputs, i from 0.
PackedSiteId(as, k) ==
    IF k = 0 THEN 0 ELSE PackedSiteId(as, k - 1) + as[k].site_id * Pow10(k - 1)

\* util.py:80-96: the combined object.  Its site is the names joined by "+",
\* kept here as the list of the names.
CombBuild ==
    /\ c_pc = "loop"
    /\ t0 > t1
    /\ combined' = [site_id |-> PackedSiteId(args, Len(args)),
                    site |-> [i \in 1..Len(args) |-> args[i].site],
                    freq_range |-> args[1].freq_range,
                    time_range |-> combined_time_range,
                    data |-> combined_data,
                    data_source |-> combined_data_sources]
    /\ c_out' = "ok"
    /\ c_pc' = "done"
    /\ UNCHANGED <<args, data_sources, time_ranges, weights, pool, t0, t1,
                   combined_data_sources, combined_time_range, combined_data>>
    /\ UNCHANGED <<dvars, kvars, rvars>>

NextCombine == CombStart \/ CombStep \/ CombBuild

(***************************************************************************)
(* SolarRadioSpectrograph.from_file (data.py:135-214).                     *)
(***************************************************************************)
\* Complete records in a stream.
MaxRecs == 4

\* fh.read(24), data.py:159.
HeaderLen == 24
\* fh.read(401), data.py:198 and 204; np.linspace(..., 401), data.py:174.
BandLenLong == 401 + 200
BandLen == 401
\* The bytes of a record: the 24 of the header and the 401 of each payload
\* block (data.py:159, 198, 204).  The streams below are laid out with it.
RecLen == 826

\* The header fields of the streams: date and time, site, then start, end,
\* reference and attenuator of each band.
HeaderFields ==
    { [yy |-> 24, mo |-> 10, dd |-> 1, hh |-> 4, mi |-> 52, ss |-> 36, site |-> 4,
       f1B |-> 25, f1E |-> 75, f1R |-> 1, f1A |-> 2,
       f2B |-> 75, f2E |-> 180, f2R |-> 3, f2A |-> 4],
      [yy |-> 51, mo |-> 12, dd |-> 31, hh |-> 23, mi |-> 59, ss |-> 59, site |-> 1,
       f1B |-> 25, f1E |-> 75, f1R |-> 0, f1A |-> 0,
       f2B |-> 76, f2E |-> 300, f2R |-> 5, f2A |-> 0],
      [yy |-> 50, mo |-> 2, dd |-> 28, hh |-> 0, mi |-> 0, ss |-> 0, site |-> 5,
       f1B |-> 75, f1E |-> 25, f1R |-> 2, f1A |-> 2,
       f2B |-> 180, f2E |-> 180, f2R |-> 0, f2A |-> 7],
      [yy |-> 24, mo |-> 2, dd |-> 30, hh |-> 1, mi |-> 2, ss |-> 3, site |-> 3,
       f1B |-> 25, f1E |-> 75, f1R |-> 1, f1A |-> 1,
       f2B |-> 75, f2E |-> 180, f2R |-> 1, f2A |-> 1],
      [yy |-> 99, mo |-> 2, dd |-> 28, hh |-> 12, mi |-> 0, ss |-> 1, site |-> 9,
       f1B |-> 25, f1E |-> 75, f1R |-> 9, f1A |-> 0,
       f2B |-> 75, f2E |-> 180, f2R |-> 0, f2A |-> 9] }

\* The 24 bytes of a header, big-endian, in the layout of the format string
\* of data.py:164: 8 bytes, 3 shorts, 2 bytes, 3 shorts, 2 bytes.
HeaderBytes(h) ==
    << h.yy, h.mo, h.dd, h.hh, h.mi, h.ss, h.site, 0,
       h.f1B \div 256, h.f1B % 256, h.f1E \div 256, h.f1E % 256, 0, 0,
       h.f1R, h.f1A,
       h.f2B \div 256, h.f2B % 256, h.f2E \div 256, h.f2E % 256, 0, 0,
       h.f2R, h.f2A >>

\* Payload byte at offset o (from 0) of record r (from 0) of the streams.
PayloadByte(r, o) == ((7 * o) + (31 * r)) % 256

\* Byte k (from 1) of the stream f: records laid end to end, their headers
\* f.a and f.b in turn, cut at f.len.
StreamByte(f, k) ==
    LET r == (k - 1) \div RecLen
        o == (k - 1) % RecLen
    IN  IF o < HeaderLen
        THEN HeaderBytes(IF r % 2 = 0 THEN f.a ELSE f.b)[o + 1]
        ELSE PayloadByte(r, o)

\* The lengths at which the last, partial record of a stream is cut: in and
\* next to the header, and at the ends of the two payload blocks.
CutSet == {0, 1, 23, 24, 25, 424, 425, 426, 825}

\* The lengths of the streams: up to MaxRecs complete records and a record
\* cut short, and the multiples of 1226 bytes.
StreamLens ==
    { r * RecLen + cut : r \in 0..MaxRecs, cut \in CutSet }
        \cup { k * 1226 : k \in 0..(MaxRecs - 1) }

Streams == [a : HeaderFields, b : HeaderFields, len : StreamLens]

\* fh.read(n): the next n bytes, fewer at the end of the stream.
ReadPadded(f, p, n) == [j \in 1..n |-> IF p + j <= f.len THEN StreamByte(f, p + j) ELSE 0]
Read(f, p, n) == [j \in 1..Min(n, f.len - p) |-> StreamByte(f, p + j)]

\* struct.unpack('>BBBBBBBBHHHBBHHHBB', header), data.py:164: the 18 fields.
Unpack(b) ==
    << b[1], b[2], b[3], b[4], b[5], b[6], b[7], b[8],
       256 * b[9] + b[10], 256 * b[11] + b[12], 256 * b[13] + b[14],
       b[15], b[16],
       256 * b[17] + b[18], 256 * b[19] + b[20], 256 * b[21] + b[22],
       b[23], b[24] >>

\* data.py:165-167.
YearOffsetFrom50(yy) == IF yy >= 50 THEN 1900 ELSE 2000
YearOffset(yy) == IF yy > 50 THEN 1900 ELSE 2000

IsLeap(y) == (y % 4 = 0 /\ y % 100 # 0) \/ y % 400 = 0

DaysInMonth(y, m) ==
    IF m = 2 THEN (IF IsLeap(y) THEN 29 ELSE 28)
    ELSE IF m \in {4, 6, 9, 11} THEN 30 ELSE 31

\* The argument checks of datetime(...), data.py:187.
ValidDate(y, m, d, hh, mi, ss) ==
    /\ m \in 1..12
    /\ d >= 1 /\ d <= DaysInMonth(y, m)
    /\ hh <= 23 /\ mi <= 59 /\ ss <= 59

\* Days from 1970-01-01 to the civil date y-m-d (proleptic Gregorian).
DaysFromCivil(y, m, d) ==
    LET yp == IF m <= 2 THEN y - 1 ELSE y
        era == yp \div 400
        yoe == yp - era * 400
        mp == IF m > 2 THEN m - 3 ELSE m + 9
        doy == ((153 * mp + 2) \div 5) + d - 1
        doe == yoe * 365 + (yoe \div 4) - (yoe \div 100) + doy
    IN  era * 146097 + doe - 719468

\* datetime(..., tzinfo=UTC).timestamp(), data.py:187-189 and 211: the
\* seconds since 1970-01-01T00:00:00Z, 86400 * day + sec.  The two parts are
\* kept apart: the product passes 2^31 for dates after 2038.
Timestamp(y, m, d, hh, mi, ss) ==
    [day |-> DaysFromCivil(y, m, d), sec |-> 3600 * hh + 60 * mi + ss]

\* np.linspace(b, e, 401) * 1e6, data.py:174 and 183, in Hz: point i (from 0)
\* is (b + i (e - b) / 400) MHz, and 1 MHz / 400 is 2500 Hz.
BandFreqKHz(b, e) == [i \in 1..BandLen |-> 1000 * (b + (i - 1) * (e - b))]
BandFreq(b, e) == [i \in 1..BandLen |-> 2500 * (400 * b + (i - 1) * (e - b))]

\* data.py:201-202 and 207-208: the bytes as floats plus reference and attenuator.
Calibrate(bytes, r, a) == [i \in 1..Len(bytes) |-> bytes[i] + r + a]

KnownSite(id) == id \in 1..5

DecodeCalled ==
    /\ fh \in Streams
    /\ pos = 0
    /\ first_frame = TRUE
    /\ header = <<>>
    /\ dt = [day |-> 0, sec |-> 0]
    /\ data0 = <<>>
    \* kls(1, []), data.py:144
    /\ d_srs = [site_id |-> 1, site |-> SiteName(1), freq_range |-> <<>>,
                time_range |-> <<>>, data |-> <<>>]
    /\ d_pc = "header"
    /\ d_out = "running"

\* data.py:159-189: read and parse a header.
DecHeader ==
    /\ d_pc = "header"
    /\ LET raw == Read(fh, pos, HeaderLen)
           h == Unpack(raw)
           year == h[1] + YearOffset(h[1])
       IN  /\ pos' = pos + Len(raw)
           /\ IF Len(raw) < HeaderLen
              THEN /\ d_out' = "ok"
                   /\ d_pc' = "done"
                   /\ UNCHANGED <<first_frame, header, dt, d_srs>>
              ELSE IF first_frame /\ ~KnownSite(h[7])
              THEN \* _SITE_ID_TO_NAME[site_id], data.py:182
                   /\ d_out' = "KeyError"
                   /\ d_pc' = "done"
                   /\ header' = h
                   /\ d_srs' = [d_srs EXCEPT !.site_id = h[7]]
                   /\ UNCHANGED <<first_frame, dt>>
              ELSE /\ header' = h
                   /\ first_frame' = FALSE
                   /\ d_srs' =
                         IF first_frame
                         THEN [d_srs EXCEPT !.site_id = h[7],
                                            !.site = SiteName(h[7]),
                                            !.freq_range = BandFreq(h[9], h[10])
                                                           \o BandFreq(h[14], h[15])]
                         ELSE d_srs
                   /\ IF ValidDate(year, h[2], h[3], h[4], h[5], h[6])
                      THEN /\ dt' = Timestamp(year, h[2], h[3], h[4], h[5], h[6])
                           /\ d_pc' = "part1"
                           /\ UNCHANGED d_out
                      ELSE /\ d_out' = "ValueError"
                           /\ d_pc' = "done"
                           /\ UNCHANGED dt
    /\ UNCHANGED data0
    /\ UNCHANGED <<fh, kvars, cvars, rvars>>

\* data.py:198-202: band 1.
DecPart1 ==
    /\ d_pc = "part1"
    /\ LET raw == Read(fh, pos, BandLen)
       IN  /\ pos' = pos + Len(raw)
           /\ IF Len(raw) < BandLen
              THEN /\ d_out' = "ok"
                   /\ d_pc' = "done"
                   /\ UNCHANGED data0
              ELSE /\ data0' = Calibrate(raw, header[12], header[13])
                   /\ d_pc' = "part2"
                   /\ UNCHANGED d_out
    /\ UNCHANGED <<first_frame, header, dt, d_srs>>
    /\ UNCHANGED <<fh, kvars, cvars, rvars>>

\* data.py:204-211: band 2 and srs.append, whose length check (data.py:110)
\* compares the row with the axis built from the first header.
DecPart2 ==
    /\ d_pc = "part2"
    /\ LET raw == Read(fh, pos, BandLen)
           row == data0 \o Calibrate(raw, header[17], header[18])
       IN  /\ pos' = pos + Len(raw)
           /\ IF Len(raw) < BandLen
              THEN /\ d_out' = "ok"
                   /\ d_pc' = "done"
                   /\ UNCHANGED d_srs
              ELSE IF Len(row) # Len(d_srs.freq_range)
              THEN /\ d_out' = "NameError"
                   /\ d_pc' = "done"
                   /\ UNCHANGED d_srs
              ELSE /\ d_srs' = [d_srs EXCEPT !.time_range = Append(@, dt),
                                             !.data = Append(@, row)]
                   /\ d_pc' = "header"
                   /\ UNCHANGED d_out
    /\ UNCHANGED <<first_frame, header, dt, data0>>
    /\ UNCHANGED <<fh, kvars, cvars, rvars>>

Next == DecHeader \/ DecPart1 \/ DecPart2

(***************************************************************************)
(* SolarRadioSpectrograph.append and extend (data.py:105-124).             *)
(***************************************************************************)
\* Rows an object may hold before append is no longer called.
MaxLen == 2
\* Timestamps and rows in one extend call.
MaxBatch == 2
\* Length of the frequency axis of the objects.
MaxFreq == 2

\* Timestamps handed to append and extend.
CallTimes == {0, 10}

\* The row lengths tried against an axis of n values.
RowLens(n) == {n - 1, n, n + 1} \cap Nat

\* A spectrum of n values.
SpecRow(n, t) == [c \in 1..n |-> t + c]

\* The objects as constructed (data.py:60-74): no rows; the axis an array of
\* 1..MaxFreq values, or the empty list from_file passes (data.py:144).
ContainerBuilt ==
    /\ \E arr \in BOOLEAN, n \in 0..MaxFreq :
        /\ arr = (n > 0)
        /\ k_obj = [is_array |-> arr, freq_size |-> n, time_range |-> <<>>, data |-> <<>>]
        /\ k_prev = [is_array |-> arr, freq_size |-> n, time_range |-> <<>>, data |-> <<>>]
    /\ k_call = [op |-> "none", timestamps |-> <<>>, specs |-> <<>>]
    /\ k_out = "none"

\* data.py:110-114 without the length check.
AppendOutcomeLax(obj, spec) == IF ~obj.is_array THEN "AttributeError" ELSE "ok"

\* data.py:110-114: what append(timestamp, spec) raises, or "ok".
\* self.freq_range.size fails on a list; the message of the length error
\* reads data.size, and append binds no name "data".
AppendOutcome(obj, spec) ==
    IF ~obj.is_array THEN "AttributeError"
    ELSE IF Len(spec) # obj.freq_size THEN "NameError"
    ELSE "ok"

\* data.py:105-114.  MaxLen bounds the rows appended to the object as it was
\* constructed or decoded.
KAppend ==
    /\ k_out # "idle"
    /\ Len(k_obj.time_range) - Len(d_srs.time_range) < MaxLen
    /\ \E t \in CallTimes, n \in RowLens(k_obj.freq_size) :
        LET spec == SpecRow(n, t)
            out == AppendOutcome(k_obj, spec)
        IN  /\ k_call' = [op |-> "append", timestamps |-> <<t>>, specs |-> <<spec>>]
            /\ k_out' = out
            /\ k_prev' = k_obj
            /\ k_obj' = IF out = "ok"
                        THEN [k_obj EXCEPT !.time_range = Append(@, t),
                                           !.data = Append(@, spec)]
                        ELSE k_obj
    /\ UNCHANGED <<dvars, cvars, rvars>>

\* data.py:117-123: what extend(timestamps, specs) raises, or "ok".  The
\* statement after the checks reads self.time_ranges, an attribute no
\* object has (the attribute is time_range).
ExtendOutcome(obj, timestamps, specs) ==
    IF Len(timestamps) # Len(specs) THEN "RuntimeError"
    ELSE IF specs # <<>> /\ ~obj.is_array THEN "AttributeError"
    ELSE IF \E i \in 1..Len(specs) : Len(specs[i]) # obj.freq_size THEN "NameError"
    ELSE "AttributeError"

\* data.py:116-124.
KExtend ==
    /\ \E m \in 0..MaxBatch :
        \E ns \in SeqsOf(RowLens(k_obj.freq_size), 0, MaxBatch) :
            LET ts == [i \in 1..m |-> 5 + 10 * i]
                specs == [i \in 1..Len(ns) |-> SpecRow(ns[i], 10 * i)]
                out == ExtendOutcome(k_obj, ts, specs)
            IN  /\ k_call' = [op |-> "extend", timestamps |-> ts, specs |-> specs]
                /\ k_out' = out
                /\ k_prev' = k_obj
                /\ k_obj' = IF out = "ok"
                            THEN [k_obj EXCEPT !.time_range = @ \o ts,
                                               !.data = @ \o specs]
                            ELSE k_obj
    /\ UNCHANGED <<dvars, cvars, rvars>>

NextContainer == KAppend \/ KExtend

\* data.py:214: from_file returns srs, and the caller goes on with that
\* object.  Its axis is the array built from the first header, or still the
\* list [] of data.py:144 when no header was read.
Returned ==
    /\ d_pc = "done"
    /\ d_out = "ok"
    /\ k_out = "idle"
    /\ k_obj' = [is_array |-> ~first_frame, freq_size |-> Len(d_srs.freq_range),
                 time_range |-> d_srs.time_range, data |-> d_srs.data]
    /\ k_prev' = k_obj'
    /\ k_out' = "none"
    /\ UNCHANGED k_call
    /\ UNCHANGED <<dvars, cvars, rvars>>

\* Decoding, then append calls on the decoded object.
NextDecodeAppend == DecHeader \/ DecPart1 \/ DecPart2 \/ Returned \/ KAppend

(***************************************************************************)
(* The specifications.                                                     *)
(***************************************************************************)
\* The rectifier's variables while another machine runs.
IdleRectify ==
    /\ srs = [has_source |-> FALSE, data_source |-> <<>>, data |-> <<>>]
    /\ arrays = <<>>
    /\ arrays0 = <<>>
    /\ sources = <<>>
    /\ ref = NaN
    /\ attemps = 0
    /\ processed = <<>>
    /\ adjustments = NoAdjust
    /\ s_idx = 0
    /\ r_pc = "idle"
    /\ r_out = "idle"
    /\ new_srs = NoSrs

\* The combiner's variables while another machine runs.
IdleCombine ==
    /\ args = <<>>
    /\ data_sources = <<>>
    /\ time_ranges = <<>>
    /\ weights = <<>>
    /\ pool = <<>>
    /\ t0 = 0
    /\ t1 = 0
    /\ combined_data_sources = <<>>
    /\ combined_time_range = <<>>
    /\ combined_data = <<>>
    /\ combined = NoCombined
    /\ c_pc = "idle"
    /\ c_out = "idle"

IdleHeader == CHOOSE h \in HeaderFields : h.yy = 24 /\ h.site = 4

\* The decoder's variables while another machine runs.
IdleDecode ==
    /\ fh = [a |-> IdleHeader, b |-> IdleHeader, len |-> 0]
    /\ pos = 0
    /\ first_frame = TRUE
    /\ header = <<>>
    /\ dt = [day |-> 0, sec |-> 0]
    /\ data0 = <<>>
    /\ d_srs = [site_id |-> 0, site |-> "", freq_range |-> <<>>,
                time_range |-> <<>>, data |-> <<>>]
    /\ d_pc = "idle"
    /\ d_out = "idle"

\* The container's variables while another machine runs.
IdleContainer ==
    /\ k_obj = [is_array |-> FALSE, freq_size |-> 0, time_range |-> <<>>, data |-> <<>>]
    /\ k_prev = [is_array |-> FALSE, freq_size |-> 0, time_range |-> <<>>, data |-> <<>>]
    /\ k_call = [op |-> "none", timestamps |-> <<>>, specs |-> <<>>]
    /\ k_out = "idle"

Init == DecodeCalled /\ IdleContainer /\ IdleCombine /\ IdleRectify

Spec == Init /\ [][Next]_vars

InitContainer == ContainerBuilt /\ IdleDecode /\ IdleCombine /\ IdleRectify

SpecContainer == InitContainer /\ [][NextContainer]_vars

InitRectify == RectifyCalled /\ IdleDecode /\ IdleContainer /\ IdleCombine

SpecRectify == InitRectify /\ [][NextRectify]_vars

\* rectify_combined runs to completion: no step is ever withheld.
FairRectify == SpecRectify /\ WF_vars(NextRectify)

InitCombine == CombineCalled /\ IdleDecode /\ IdleContainer /\ IdleRectify

SpecCombine == InitCombine /\ [][NextCombine]_vars

\* A spectrogram comes from from_file, and is then appended to, or from
\* combine_srs.
InitObjects == Init \/ InitCombine

NextObjects == NextDecodeAppend \/ NextCombine

SpecObjects == InitObjects /\ [][NextObjects]_vars

(***************************************************************************)
(* Claims about combine_srs.                                               *)
(***************************************************************************)
CombReturned == c_pc = "done" /\ c_out = "ok"

\* Every (input, position) of the inputs' samples, inputs and positions from 1.
Samples ==
    UNION { { <<i, j>> : j \in 1..Len(args[i].time_range) } : i \in 1..Len(args) }

SampleTime(p) == args[p[1]].time_range[p[2]]

\* The smallest and largest timestamp over all inputs.
TMin == SetMin({ SampleTime(p) : p \in Samples })
TMax == SetMax({ SampleTime(p) : p \in Samples })

\* The 10 s step of row k (k from 1).
GridStep(k) == TMin + 10 * (k - 1)

\* C2 (as claimed): the time axis of the output is exactly the 10 s grid:
\* there is one row per step tmin + 10k <= tmax and row k's timestamp is
\* that step, whether the row was filled from a sample or is a missing-data
\* row.
C2_TimeAxisIsGrid ==
    CombReturned =>
        /\ Len(combined.time_range) = ((TMax - TMin) \div 10) + 1
        /\ \A k \in 1..Len(combined.time_range) : combined.time_range[k] = GridStep(k)

\* C2 (amended): the output has one row per step tmin + 10k <= tmax; a
\* missing-data row's timestamp is its step, and a filled row's timestamp is
\* the timestamp of the input sample the row was filled from, which lies
\* within 5 s of the step.
C2_TimeAxisFollowsSamples ==
    CombReturned =>
        /\ Len(combined.time_range) = ((TMax - TMin) \div 10) + 1
        /\ Len(combined.data) = Len(combined.time_range)
        /\ Len(combined.data_source) = Len(combined.time_range)
        /\ \A k \in 1..Len(combined.time_range) :
            IF IsNaN(combined.data_source[k])
            THEN combined.time_range[k] = GridStep(k)
            ELSE \E p \in Samples :
                    /\ p[1] = combined.data_source[k] + 1
                    /\ args[p[1]].data[p[2]] = combined.data[k]
                    /\ SampleTime(p) = combined.time_range[k]
                    /\ Abs(SampleTime(p) - GridStep(k)) < 5

\* An output with a filled row whose timestamp is off its step, and a
\* missing-data row.
C2_Witness ==
    /\ CombReturned
    /\ \E k \in 1..Len(combined.time_range) :
        ~IsNaN(combined.data_source[k]) /\ combined.time_range[k] # GridStep(k)
    /\ \E k \in 1..Len(combined.time_range) : IsNaN(combined.data_source[k])

\* The samples within the 5 s half-window of step g.
InWindow(g) == { p \in Samples : Abs(SampleTime(p) - g) < 5 }

\* The distance of a sample from the middle-indexed timestamp of its own
\* input: the weight 1 - dist/86400 is higher where the distance is smaller.
MidDist(p) ==
    Abs(SampleTime(p) - args[p[1]].time_range[(Len(args[p[1]].time_range) \div 2) + 1])

\* p comes before q in pool order.
PoolBefore(p, q) == p[1] < q[1] \/ (p[1] = q[1] /\ p[2] < q[2])

\* The sample emitted at step g: highest weight, the earliest among equals.
Winner(g) ==
    CHOOSE p \in InWindow(g) :
        \A q \in InWindow(g) \ {p} :
            MidDist(p) < MidDist(q) \/ (MidDist(p) = MidDist(q) /\ PoolBefore(p, q))

\* C3: at every 10 s step the emitted row is the pooled sample of highest
\* weight among those within 5 s of the step, the earliest in pool order
\* among equal weights, tagged with its input's positional index; with no
\* sample in the window the row is all NaN and tagged as missing data.  The
\* output is thereby a function of the inputs.
C3_BestSampleEmitted ==
    (c_pc \in {"loop", "done"} /\ c_out # "IncompatibleAxis") =>
        \A k \in 1..Len(combined_data_sources) :
            IF InWindow(GridStep(k)) = {}
            THEN /\ IsNaN(combined_data_sources[k])
                 /\ combined_data[k] = [c \in 1..Len(args[1].freq_range) |-> NaNPow]
                 /\ combined_time_range[k] = GridStep(k)
            ELSE LET p == Winner(GridStep(k))
                 IN  /\ combined_data_sources[k] = p[1] - 1
                     /\ combined_data[k] = args[p[1]].data[p[2]]
                     /\ combined_time_range[k] = SampleTime(p)

\* A returned output with a row two inputs' samples tied for, and a
\* missing-data row.
C3_Witness ==
    /\ CombReturned
    /\ \E k \in 1..Len(combined.data_source) :
        \E p, q \in InWindow(GridStep(k)) :
            /\ p[1] # q[1]
            /\ MidDist(p) = MidDist(q)
            /\ \A x \in InWindow(GridStep(k)) : MidDist(p) <= MidDist(x)
    /\ \E k \in 1..Len(combined.data_source) : IsNaN(combined.data_source[k])


\* Some input's frequency axis differs from the first input's in length, in
\* first value or in last value.
AxisDiffers ==
    \E i \in 1..Len(args) :
        LET f == args[i].freq_range
            g == args[1].freq_range
        IN  Len(f) # Len(g) \/ f[1] # g[1] \/ f[Len(f)] # g[Len(g)]

\* C12: combine_srs fails with the incompatible-axis error exactly when some
\* input's frequency axis differs from the first input's in length, first
\* value or last value, and then builds no combined spectrogram; inputs that
\* agree on the three and differ in between are combined, with the first
\* input's axis.
C12_AxisCheck ==
    /\ c_out = "IncompatibleAxis" => AxisDiffers /\ combined = NoCombined
    /\ (c_pc \in {"loop", "done"} /\ AxisDiffers) => c_out = "IncompatibleAxis" /\ c_pc = "done"
    /\ (c_pc = "done" /\ ~AxisDiffers) =>
            /\ c_out = "ok"
            /\ combined.freq_range = args[1].freq_range
            /\ Len(combined.data) >= 1

\* A combined spectrogram holding a row of an input whose axis differs from
\* the first input's in an intermediate value.
C12_Witness ==
    /\ CombReturned
    /\ \E i \in 2..Len(args) :
        /\ args[i].freq_range # args[1].freq_range
        /\ \E k \in 1..Len(combined.data_source) : combined.data_source[k] = i - 1

\* C16: in the output of combine_srs row k's timestamp lies strictly within
\* 5 s of the step tmin + 10k and is that step for a missing-data row; the
\* time axis is therefore strictly increasing, no input sample is emitted in
\* two rows, and a sample exactly 5 s from the steps on both sides of it is
\* emitted in no row.
C16_RowsStayInWindow ==
    CombReturned =>
        /\ \A k \in 1..Len(combined.time_range) :
            /\ Abs(combined.time_range[k] - GridStep(k)) < 5
            /\ IsNaN(combined.data_source[k]) => combined.time_range[k] = GridStep(k)
        /\ \A k \in 1..(Len(combined.time_range) - 1) :
            combined.time_range[k] < combined.time_range[k + 1]
        /\ \A p \in Samples :
            LET rows == { k \in 1..Len(combined.data) :
                            /\ combined.data_source[k] = p[1] - 1
                            /\ combined.data[k] = args[p[1]].data[p[2]] }
            IN  /\ Cardinality(rows) <= 1
                /\ (SampleTime(p) - TMin) % 10 = 5 => rows = {}

\* An output of several rows, one of them filled off its step, from inputs
\* with a sample exactly 5 s from the steps before and after it.
C16_Witness ==
    /\ CombReturned
    /\ \E p \in Samples :
        (SampleTime(p) - TMin) % 10 = 5 /\ SampleTime(p) + 5 <= TMax
    /\ \E k \in 2..Len(combined.time_range) :
        ~IsNaN(combined.data_source[k]) /\ combined.time_range[k] # GridStep(k)

(***************************************************************************)
(* Claims about from_file.                                                 *)
(***************************************************************************)
DecReturned == d_pc = "done" /\ d_out = "ok"

\* The header of record r (r from 0) of the stream, as it was laid out.
HdrOf(r) == IF r % 2 = 0 THEN fh.a ELSE fh.b

\* The records completely present in the stream.
NFull == fh.len \div 826

\* The header of record r is completely present.
HeaderPresent(r) == fh.len >= r * 826 + 24

\* The records whose header the decoder reaches: every complete record and
\* the cut one, if its header is complete.
Reached == { r \in 0..NFull : HeaderPresent(r) }

CalendarYear(yy) == IF yy > 50 THEN 1900 + yy ELSE 2000 + yy

GoodDate(h) == ValidDate(CalendarYear(h.yy), h.mo, h.dd, h.hh, h.mi, h.ss)

\* No header the decoder reaches makes it fail.
Decodable ==
    /\ 0 \in Reached => fh.a.site \in 1..5
    /\ \A r \in Reached : GoodDate(HdrOf(r))

\* The row of record r: its payload bytes plus the band's reference level
\* and attenuator setting.
ExpectedRow(r) ==
    [c \in 1..802 |->
        PayloadByte(r, 24 + c - 1)
            + (IF c <= 401 THEN HdrOf(r).f1R + HdrOf(r).f1A
                           ELSE HdrOf(r).f2R + HdrOf(r).f2A)]

ExpectedTime(r) ==
    LET h == HdrOf(r)
    IN  Timestamp(CalendarYear(h.yy), h.mo, h.dd, h.hh, h.mi, h.ss)

\* C7: truncation never makes decoding fail.  The rows and timestamps held
\* are at every moment those of complete records, in stream order; when the
\* stream ends inside a header or inside either payload block, decoding
\* returns with exactly the complete records, and it fails only on a header
\* it has read in full (unknown site of the first, or an impossible date).
C7_TruncationTolerated ==
    /\ Len(d_srs.time_range) = Len(d_srs.data)
    /\ Len(d_srs.data) <= NFull
    /\ \A r \in 0..(Len(d_srs.data) - 1) :
        d_srs.data[r + 1] = ExpectedRow(r) /\ d_srs.time_range[r + 1] = ExpectedTime(r)
    /\ d_pc = "done" =>
        /\ d_out \in {"ok", "KeyError", "ValueError"}
        /\ d_out = "ok" <=> Decodable
        /\ d_out = "ok" => Len(d_srs.data) = NFull
        /\ d_out = "KeyError" => 0 \in Reached /\ fh.a.site \notin 1..5
        /\ d_out = "ValueError" => \E r \in Reached : ~GoodDate(HdrOf(r))

\* A stream cut inside a payload block of its third record, decoded to two rows.
C7_Witness ==
    /\ DecReturned
    /\ fh.len % 826 >= 24
    /\ Len(d_srs.data) = 2
    /\ pos = fh.len

\* C8 (as claimed): the record size is 1226 bytes: a stream of k x 1226
\* bytes decodes to exactly k rows.
C8_Rows1226 ==
    (DecReturned /\ fh.len % 1226 = 0) => Len(d_srs.data) = fh.len \div 1226

\* C8 (amended): the record size is 826 bytes: a stream of k x 826 bytes
\* whose headers are decodable decodes to exactly k rows.
C8_Rows826 ==
    (d_pc = "done" /\ fh.len % 826 = 0) =>
        /\ Decodable => d_out = "ok"
        /\ d_out = "ok" => Len(d_srs.data) = fh.len \div 826 /\ Len(d_srs.time_range) = fh.len \div 826

\* A stream of 3 x 826 bytes decoded to three rows.
C8_Witness ==
    /\ DecReturned
    /\ fh.len = 3 * 826
    /\ Len(d_srs.data) = 3

StrictlyIncreasing(f) == \A i \in 1..(Len(f) - 1) : f[i] < f[i + 1]

\* f is the axis of the header h in Hz: 401 points from start to end of band
\* 1, then of band 2.  Point i (from 0) is 1e6 (b + i (e - b) / 400), so four
\* times it is 1e4 (400 b + i (e - b)).
AxisOfHeader(f, h) ==
    /\ Len(f) = 802
    /\ \A i \in 0..400 :
        /\ 4 * f[i + 1] = 10000 * (400 * h.f1B + i * (h.f1E - h.f1B))
        /\ 4 * f[i + 402] = 10000 * (400 * h.f2B + i * (h.f2E - h.f2B))

\* C9 (as claimed): every spectrogram the decoder returns has an axis of 802
\* entries in Hz that is strictly increasing.
C9_AxisStrictlyIncreasing ==
    DecReturned =>
        /\ Len(d_srs.freq_range) = 802
        /\ StrictlyIncreasing(d_srs.freq_range)

\* C9 (amended): a spectrogram returned for a stream holding a complete first
\* header has an axis of 802 entries in Hz, band 1's 401 linearly spaced
\* points then band 2's, from the first header's MHz values times 1e6; it
\* is strictly increasing exactly when band-1 start < band-1 end < band-2
\* start < band-2 end.  A stream shorter than one header gives an empty axis.
C9_AxisFromFirstHeader ==
    DecReturned =>
        IF fh.len < 24 THEN d_srs.freq_range = <<>>
        ELSE /\ AxisOfHeader(d_srs.freq_range, fh.a)
             /\ StrictlyIncreasing(d_srs.freq_range)
                    <=> (fh.a.f1B < fh.a.f1E /\ fh.a.f1E < fh.a.f2B /\ fh.a.f2B < fh.a.f2E)

\* A decoded file of the network's bands, 25-75 and 75-180 MHz, with rows:
\* 75 MHz is on the axis twice.
C9_Witness ==
    /\ DecReturned
    /\ Len(d_srs.data) >= 1
    /\ Len(d_srs.freq_range) = 802
    /\ d_srs.freq_range[401] = 75000000
    /\ d_srs.freq_range[402] = 75000000


\* The day number (days since 1970-01-01) of the dates of the streams'
\* headers, by calendar year.
KnownDay(y, m, d) ==
    CASE y = 2024 /\ m = 10 /\ d = 1 -> 19997
      [] y = 1951 /\ m = 12 /\ d = 31 -> 0 - 6576
      [] y = 2050 /\ m = 2 /\ d = 28 -> 29278
      [] y = 1999 /\ m = 2 /\ d = 28 -> 10650

\* C13: the timestamp of the k-th row is the UTC instant of the k-th
\* complete record's header: its month, day, hour, minute and second in the
\* calendar year 1900+yy when the year byte yy is above 50 and 2000+yy
\* otherwise (51 -> 1951, 50 -> 2050, 24 -> 2024), a whole number of seconds.
C13_YearDeAliased ==
    \A k \in 1..Len(d_srs.time_range) :
        LET h == HdrOf(k - 1)
            y == IF h.yy > 50 THEN 1900 + h.yy ELSE 2000 + h.yy
        IN  /\ h.yy = 51 => y = 1951
            /\ h.yy = 50 => y = 2050
            /\ h.yy = 24 => y = 2024
            /\ d_srs.time_range[k].day = KnownDay(y, h.mo, h.dd)
            /\ d_srs.time_range[k].sec = 3600 * h.hh + 60 * h.mi + h.ss
            /\ d_srs.time_range[k].sec \in 0..86399

\* A decoded file whose first record is of year byte 51 and second of 50.
C13_Witness ==
    /\ DecReturned
    /\ Len(d_srs.time_range) >= 2
    /\ fh.a.yy = 51
    /\ fh.b.yy = 50
    /\ d_srs.time_range[1].day < 0
    /\ d_srs.time_range[2].day > 19997

(***************************************************************************)
(* Claims about append and extend.                                         *)
(***************************************************************************)
\* C10 (as claimed): extend given as many timestamps as rows, every row of
\* the axis' length, succeeds and appends all pairs in order; given a row of
\* another length it fails and appends nothing.
C10_ExtendAppendsAll ==
    (k_call.op = "extend" /\ k_prev.is_array) =>
        LET fits == \A i \in 1..Len(k_call.specs) : Len(k_call.specs[i]) = k_prev.freq_size
        IN  /\ (Len(k_call.timestamps) = Len(k_call.specs) /\ fits) =>
                /\ k_out = "ok"
                /\ k_obj.time_range = k_prev.time_range \o k_call.timestamps
                /\ k_obj.data = k_prev.data \o k_call.specs
            /\ ~fits => k_out # "ok" /\ k_obj = k_prev

\* The time axis is as long as the list of rows, and every row as long as
\* the frequency axis of n values.
Shaped(tr, rows, n) ==
    /\ Len(tr) = Len(rows)
    /\ \A i \in 1..Len(rows) : Len(rows[i]) = n

\* C11: every spectrogram reached by decoding a stream, by append calls on
\* the decoded object, successful or failing, or by combine_srs has a time
\* axis as long as its list of rows and rows as long as its frequency axis;
\* an append of a row whose length differs from the frequency axis' fails and
\* leaves the time axis and the rows as they were.
C11_ShapeKept ==
    /\ d_pc # "idle" => Shaped(d_srs.time_range, d_srs.data, Len(d_srs.freq_range))
    /\ k_out # "idle" => Shaped(k_obj.time_range, k_obj.data, k_obj.freq_size)
    /\ CombReturned => Shaped(combined.time_range, combined.data, Len(combined.freq_range))
    /\ (k_call.op = "append" /\ Len(k_call.specs[1]) # k_prev.freq_size) =>
            /\ k_out \notin {"ok", "none"}
            /\ k_obj.time_range = k_prev.time_range
            /\ k_obj.data = k_prev.data

\* A decoded object with rows that took one appended row and then refused
\* a row of another length.
C11_Witness ==
    /\ DecReturned
    /\ Len(d_srs.data) >= 1
    /\ Len(k_obj.data) = Len(d_srs.data) + 1
    /\ k_call.op = "append"
    /\ Len(k_call.specs[1]) # k_obj.freq_size
    /\ k_out = "NameError"

(***************************************************************************)
(* Claims about rectify_combined.                                          *)
(***************************************************************************)
RectReturned == r_pc = "done" /\ r_out = "ok"

\* The distinct finite tags of the argument.
SiteTags == Range(CleanSource(srs.data_source))

\* The rows of the argument tagged s.
RowsOf(s) == SourceSet(srs.data_source, s)

\* C1 (as claimed): once rectify_combined has returned for an input with two
\* or more site tags, every row of the input's power matrix holds the values
\* it held at the call, and the returned object's rows are arrays of its own.
C1_InputNeverMutated ==
    (RectReturned /\ Cardinality(SiteTags) >= 2) =>
        /\ \A i \in 1..Len(srs.data) : arrays[srs.data[i]] = arrays0[srs.data[i]]
        /\ Range(new_srs.data) \cap Range(srs.data) = {}

\* C4 (as claimed): for an input with exactly one distinct site tag, with or
\* without missing-data rows, rectify_combined succeeds, maps that tag to 0
\* and returns the input's power matrix unchanged.
C4_SingleSiteIdentity ==
    (r_pc = "done" /\ srs.has_source /\ Cardinality(SiteTags) = 1) =>
        /\ r_out = "ok"
        /\ new_srs.data_adjustments = [x \in SiteTags |-> 0]
        /\ Len(new_srs.data) = Len(srs.data)
        /\ \A i \in 1..Len(srs.data) : arrays[new_srs.data[i]] = arrays0[srs.data[i]]

\* The transitions of the tag sequence with the missing-data markers left out.
CleanChangeIdx == ChangeIdx(CleanSource(srs.data_source))
FirstCleanChange == SetMin(CleanChangeIdx)

\* The reference has been chosen.
RefChosen == r_pc \in {"while", "for"} \/ r_out \in {"ok", "Stalled", "NameError"}

\* C5 (as claimed): with two or more site tags the reference site, the one
\* given offset 0 and never adjusted, is the tag right after the first site
\* transition, transitions being found with missing-data markers ignored.
C5_RefFollowsTransition ==
    (RefChosen /\ Cardinality(SiteTags) >= 2) =>
        ref = CleanSource(srs.data_source)[FirstCleanChange + 1]

\* C5 (amended): with two or more site tags the reference site is the tag
\* right before the first site transition, which is the tag of the first
\* row; it has offset 0 and none of its rows is ever changed.
C5_RefPrecedesTransition ==
    (RefChosen /\ Cardinality(SiteTags) >= 2) =>
        /\ ref = CleanSource(srs.data_source)[FirstCleanChange]
        /\ ref = srs.data_source[1]
        /\ adjustments[ref] = 0
        /\ \A i \in RowsOf(ref) : arrays[srs.data[i]] = arrays0[srs.data[i]]

\* A run that chose its reference, adjusted another site by a non-zero
\* offset and returned.
C5_Witness ==
    /\ RectReturned
    /\ Cardinality(SiteTags) >= 2
    /\ \E s \in SiteTags : s # ref /\ adjustments[s] # 0

\* Site s has no neighbouring row of another site: every row next to one of
\* its rows is its own or a missing-data row.
Isolated(s) ==
    \A i \in RowsOf(s) : \A j \in {i - 1, i + 1} \cap (1..Len(srs.data_source)) :
        IsNaN(srs.data_source[j]) \/ srs.data_source[j] = s

AllProcessed == \A i \in 1..Len(sources) : InList(sources[i], processed)

C6_Safety ==
    /\ attemps <= 5 * Len(sources) + 1
    /\ r_out = "ok" => AllProcessed /\ attemps <= 5 * Len(sources)
    /\ r_out = "Stalled" => ~AllProcessed /\ attemps = 5 * Len(sources) + 1
    /\ (r_pc = "done" /\ ~AllProcessed /\ r_out \notin {"NotCombined", "IndexError"})
            => r_out = "Stalled"
    /\ (r_pc = "done" /\ srs.has_source /\ Cardinality(SiteTags) >= 2
            /\ \E s \in SiteTags : Isolated(s))
            => r_out = "Stalled"

\* C6: rectify_combined always terminates.  It starts at most 5 x (number of
\* site tags) scan passes; it returns only with every site tag processed, and
\* when they are not all processed by then its next pass raises the stalled
\* error.  An input of two or more site tags one of which has no neighbouring
\* row of another site (its runs are bordered by missing-data rows only) ends
\* in that error.
C6_TerminatesOrStalls == [](C6_Safety) /\ <>(r_pc = "done")

\* A run that stalled on a site bordered by missing-data rows only.
C6_Witness ==
    /\ r_pc = "done"
    /\ r_out = "Stalled"
    /\ attemps = 5 * Len(sources) + 1
    /\ \E s \in SiteTags : s # ref /\ Isolated(s)


\* The input has the two site tags ref (its first row's) and s; the row
\* before s's first row is a missing-data row and the row after s's last row
\* is one of ref.
FollowedByRef(s) ==
    LET ds == srs.data_source
        first == SetMin(RowsOf(s))
        last == SetMax(RowsOf(s))
    IN  /\ SiteTags = {ds[1], s}
        /\ s # ds[1]
        /\ IsNaN(ds[first - 1])
        /\ last < Len(ds)
        /\ ds[last + 1] = ds[1]

\* C14 (as claimed): an unprocessed site whose preceding row is not of a
\* processed site and whose following row is of a processed site is matched
\* to the following row: its offset is the reference sub-band median of the
\* row after its last row minus that of its last row, and the input
\* converges instead of stalling.
C14_MatchedToFollowingRow ==
    \A s \in SiteTags :
        (r_pc = "done" /\ srs.has_source /\ FollowedByRef(s)) =>
            LET last == SetMax(RowsOf(s))
            IN  /\ r_out = "ok"
                /\ adjustments[s] =
                      Median(arrays0[srs.data[last + 1]], RefBand)
                          - Median(arrays0[srs.data[last]], RefBand)

\* The for loop stands at an unprocessed site whose first row follows a row
\* of a processed site.
AtSiteAfterProcessed ==
    /\ r_pc = "for"
    /\ s_idx <= Len(sources)
    /\ ~InList(sources[s_idx], processed)
    /\ SetMin(RowsOf(sources[s_idx])) > 1
    /\ InList(srs.data_source[SetMin(RowsOf(sources[s_idx])) - 1], processed)

\* The reference sub-band median of row i of the input, its rows being arrs.
BandMedian(arrs, i) == Median(arrs[srs.data[i]], RefBand)

\* C15: in a scan pass an unprocessed site s whose first row follows a row
\* of a processed site gets the offset (reference sub-band median of that
\* preceding row as adjusted so far) - (that of s's first row); the offset is
\* added to every column of every row tagged s and to no other row, recorded
\* as adjustments[s], and s becomes processed, after which the two boundary
\* rows have equal reference sub-band medians.  No site is processed any
\* other way.
C15_MatchedToPrecedingRow ==
    [][ /\ (r_pc = "for" /\ processed' # processed) => AtSiteAfterProcessed
        /\ AtSiteAfterProcessed =>
            LET s == sources[s_idx]
                first == SetMin(RowsOf(s))
                off == BandMedian(arrays, first - 1) - BandMedian(arrays, first)
            IN  /\ processed' = Append(processed, s)
                /\ DOMAIN adjustments' = DOMAIN adjustments \cup {s}
                /\ adjustments'[s] = off
                /\ \A x \in DOMAIN adjustments : adjustments'[x] = adjustments[x]
                /\ \A i \in 1..Len(srs.data) : \A c \in 1..NChan :
                    arrays'[srs.data[i]][c] =
                        IF i \in RowsOf(s) THEN arrays[srs.data[i]][c] + off
                        ELSE arrays[srs.data[i]][c]
                /\ BandMedian(arrays', first - 1) = BandMedian(arrays', first)
      ]_vars

\* Three sites processed in a chain: the last one, of two or more rows, was
\* matched to a row of a site that had itself been shifted.
C15_Witness ==
    /\ r_pc \in {"for", "while"}
    /\ Len(processed) = 3
    /\ adjustments[processed[2]] # 0
    /\ adjustments[processed[3]] # 0
    /\ Cardinality(RowsOf(processed[3])) >= 2
    /\ srs.data_source[SetMin(RowsOf(processed[3])) - 1] = processed[2]
    /\ BandMedian(arrays, SetMin(RowsOf(processed[3])) - 1)
          = BandMedian(arrays, SetMin(RowsOf(processed[3])))

====
